---------------------------- MODULE Spec2Model ----------------------------
(***************************************************************************)
(* Model of parse_coordinates (src/sulfuric_acid_map.py, lines 7-82): the  *)
(* DMS coordinate parser.  Text is a sequence of characters, the regular   *)
(* expressions are matched by a backtracking matcher over pattern          *)
(* elements, and floats are exact rationals (sign, numerator, denominator).*)
(***************************************************************************)
EXTENDS Integers, Sequences, FiniteSets, TLC

(***************************************************************************)
(* Characters.  ASCII characters stand for themselves; the others are      *)
(* named by their code point.                                              *)
(***************************************************************************)
DEGREE == "U+00B0"
MASC_ORD == "U+00BA"
APOS == "'"
PRIME == "U+2032"
QUOTE == "U+0022"
DPRIME == "U+2033"
TAB == "U+0009"
SURROGATE == "U+D800"

DigitChars == <<"0", "1", "2", "3", "4", "5", "6", "7", "8", "9">>
UpperChars == <<"A", "B", "C", "D", "E", "F", "G", "H", "I", "J", "K", "L", "M",
                "N", "O", "P", "Q", "R", "S", "T", "U", "V", "W", "X", "Y", "Z">>
LowerChars == <<"a", "b", "c", "d", "e", "f", "g", "h", "i", "j", "k", "l", "m",
                "n", "o", "p", "q", "r", "s", "t", "u", "v", "w", "x", "y", "z">>

Range(f) == {f[i] : i \in DOMAIN f}
IndexOf(seq, c) == CHOOSE i \in DOMAIN seq : seq[i] = c

\* str.upper() and str.lower() on one character
Upper(c) == IF c \in Range(LowerChars) THEN UpperChars[IndexOf(LowerChars, c)] ELSE c
Lower(c) == IF c \in Range(UpperChars) THEN LowerChars[IndexOf(UpperChars, c)] ELSE c

\* the character classes of the patterns: \d, \s, [°º], ['′], ["″], [NSEW], [NS], [EW]
Digit == Range(DigitChars)
Space == {" ", TAB}
\* a degree class that knows the degree sign only
DegMarkAsciiOnly == {DEGREE}
DegMark == {DEGREE, MASC_ORD}
MinMark == {APOS, PRIME}
SecMark == {QUOTE, DPRIME}
NSEW == {"N", "S", "E", "W"}
NS == {"N", "S"}
EW == {"E", "W"}

(***************************************************************************)
(* Python values: None, numbers, booleans and text.                        *)
(***************************************************************************)
None == [type |-> "NoneType"]
PyStr(s) == [type |-> "str", text |-> s]
PyInt(n) == [type |-> "int", val |-> n]
PyFloat(n) == [type |-> "float", val |-> n]
PyBool(b) == [type |-> "bool", val |-> b]

\* the truth value `not coord_str` tests
Truthy(v) ==
  CASE v.type = "NoneType" -> FALSE
    [] v.type = "str" -> v.text # <<>>
    [] v.type = "bool" -> v.val
    [] OTHER -> v.val # 0

\* isinstance(coord_str, str)
IsStr(v) == v.type = "str"

(***************************************************************************)
(* Floats as exact rationals in lowest terms, with IEEE's sign bit.        *)
(***************************************************************************)
RECURSIVE GCD(_, _)
GCD(a, b) == IF b = 0 THEN a ELSE GCD(b, a % b)

RECURSIVE Pow10(_)
Pow10(k) == IF k = 0 THEN 1 ELSE 10 * Pow10(k - 1)

Rat(n, d) == LET g == GCD(n, d) IN [type |-> "float", neg |-> FALSE, num |-> n \div g, den |-> d \div g]

\* x / n for a positive integer n
RatDiv(x, n) ==
  LET g == GCD(x.num, n)
  IN  [type |-> "float", neg |-> x.neg, num |-> x.num \div g, den |-> x.den * (n \div g)]

\* x + y for non-negative x and y
RatAdd(x, y) ==
  LET l == (x.den \div GCD(x.den, y.den)) * y.den
  IN  Rat(x.num * (l \div x.den) + y.num * (l \div y.den), l)

\* -x
RatNeg(x) == [x EXCEPT !.neg = ~x.neg]


(***************************************************************************)
(* Regular expressions.  A pattern is a sequence of elements: a character  *)
(* class with a quantifier ("1", "?", "*", "+") that appends what it       *)
(* consumes to capture group g (0: none), or an optional non-capturing     *)
(* group (?:...)? holding a sub-pattern.  Quantifiers are greedy and       *)
(* backtrack, as in Python's re.                                           *)
(***************************************************************************)
One(set, g) == [kind |-> "class", set |-> set, q |-> "1", g |-> g, sub |-> <<>>]
Opt(set, g) == [kind |-> "class", set |-> set, q |-> "?", g |-> g, sub |-> <<>>]
Star(set, g) == [kind |-> "class", set |-> set, q |-> "*", g |-> g, sub |-> <<>>]
Plus(set, g) == [kind |-> "class", set |-> set, q |-> "+", g |-> g, sub |-> <<>>]
OptGroup(sub) == [kind |-> "optgroup", set |-> {}, q |-> "?", g |-> 0, sub |-> sub]

NoMatch == [ok |-> FALSE]
NoGroups == [g \in 1..8 |-> <<>>]
Capture(caps, g, chunk) == IF g = 0 THEN caps ELSE [caps EXCEPT ![g] = @ \o chunk]

\* does character c belong to the class, under re.IGNORECASE when ic
CharIn(c, set, ic) == c \in set \/ (ic /\ (Upper(c) \in set \/ Lower(c) \in set))

\* the length of the longest run of class characters of s starting at pos
RECURSIVE RunLen(_, _, _, _)
RunLen(set, s, pos, ic) ==
  IF pos <= Len(s) /\ CharIn(s[pos], set, ic) THEN 1 + RunLen(set, s, pos + 1, ic) ELSE 0

RECURSIVE MatchHere(_, _, _, _, _)
RECURSIVE Greedy(_, _, _, _, _, _, _)

\* e repeated n times at pos, then rest; on failure one repetition fewer
Greedy(e, rest, s, pos, n, caps, ic) ==
  IF n < (IF e.q = "+" THEN 1 ELSE 0) THEN NoMatch
  ELSE LET r == MatchHere(rest, s, pos + n, Capture(caps, e.g, SubSeq(s, pos, pos + n - 1)), ic)
       IN  IF r.ok THEN r ELSE Greedy(e, rest, s, pos, n - 1, caps, ic)

\* the match of pat anchored at pos, if any: the groups and where it ends
MatchHere(pat, s, pos, caps, ic) ==
  IF pat = <<>> THEN [ok |-> TRUE, group |-> caps, end |-> pos]
  ELSE LET e == Head(pat)
           rest == Tail(pat)
           hit == pos <= Len(s) /\ CharIn(s[pos], e.set, ic)
           taken == MatchHere(rest, s, pos + 1, Capture(caps, e.g, <<s[pos]>>), ic)
           skipped == MatchHere(rest, s, pos, caps, ic)
           inner == MatchHere(e.sub \o rest, s, pos, caps, ic)
       IN  CASE e.kind = "optgroup" -> IF inner.ok THEN inner ELSE skipped
             [] e.kind = "class" /\ e.q = "1" -> IF hit THEN taken ELSE NoMatch
             [] e.kind = "class" /\ e.q = "?" -> IF hit /\ taken.ok THEN taken ELSE skipped
             [] OTHER -> Greedy(e, rest, s, pos, RunLen(e.set, s, pos, ic), caps, ic)

\* re.search: the match at the leftmost position that has one
RECURSIVE SearchFrom(_, _, _, _)
SearchFrom(pat, s, start, ic) ==
  IF start > Len(s) + 1 THEN NoMatch
  ELSE LET r == MatchHere(pat, s, start, NoGroups, ic)
       IN  IF r.ok THEN r ELSE SearchFrom(pat, s, start + 1, ic)

\* re.search without re.IGNORECASE
SearchCaseSensitive(pat, s) == SearchFrom(pat, s, 1, FALSE)

\* re.match: the pattern anchored at the start of the text
SearchAtStart(pat, s) == MatchHere(pat, s, 1, NoGroups, TRUE)

\* re.search(pattern, cleaned_str, re.IGNORECASE)
Search(pat, s) == SearchFrom(pat, s, 1, TRUE)

\* a DMS group without the \s* after the degree and minute marks
DmsGroupNoSpaceAfterMark(g0) ==
  << Plus(Digit, g0 + 1), One(DegMark, 0),
     Plus(Digit, g0 + 2), One(MinMark, 0),
     Plus(Digit, g0 + 3), OptGroup(<<One({"."}, g0 + 3), Plus(Digit, g0 + 3)>>),
     Opt(SecMark, 0), Star(Space, 0), One(NSEW, g0 + 4) >>

\* one DMS group of the two general patterns, capturing into groups g0+1..g0+4:
\*   (\d+)[°º]\s*(\d+)['′]\s*(\d+(?:\.\d+)?)["″]?\s*([NSEW])
DmsGroup(g0) ==
  << Plus(Digit, g0 + 1), One(DegMark, 0), Star(Space, 0),
     Plus(Digit, g0 + 2), One(MinMark, 0), Star(Space, 0),
     Plus(Digit, g0 + 3), OptGroup(<<One({"."}, g0 + 3), Plus(Digit, g0 + 3)>>),
     Opt(SecMark, 0), Star(Space, 0), One(NSEW, g0 + 4) >>

\* patterns[0]: the two groups separated by a comma and \s*
comma_pattern == DmsGroup(0) \o <<One({","}, 0), Star(Space, 0)>> \o DmsGroup(4)

\* the two groups separated by exactly one space character
space_pattern_single_space == DmsGroup(0) \o <<One({" "}, 0)>> \o DmsGroup(4)

\* patterns[1]: the two groups separated by \s+
space_pattern == DmsGroup(0) \o <<Plus(Space, 0)>> \o DmsGroup(4)

\* the list with its two patterns in the other order
patterns_swapped == <<space_pattern, comma_pattern>>

patterns == <<comma_pattern, space_pattern>>

\* (\d+)[°º](\d+)['′](\d+)["″]?([NS])\s+(\d+)[°º](\d+)['′](\d+)["″]?([EW])
simplified_pattern ==
  << Plus(Digit, 1), One(DegMark, 0), Plus(Digit, 2), One(MinMark, 0),
     Plus(Digit, 3), Opt(SecMark, 0), One(NS, 4), Plus(Space, 0),
     Plus(Digit, 5), One(DegMark, 0), Plus(Digit, 6), One(MinMark, 0),
     Plus(Digit, 7), Opt(SecMark, 0), One(EW, 8) >>

\* the text of the special case: 33° 46' 36" N, 118° 17' 0" W
special_text ==
  << "3", "3", DEGREE, " ", "4", "6", APOS, " ", "3", "6", QUOTE, " ", "N", ",", " ",
     "1", "1", "8", DEGREE, " ", "1", "7", APOS, " ", "0", QUOTE, " ", "W" >>

\* the pair the special case returns: 33.77, -118.283333
special_result == <<Rat(3377, 100), RatNeg(Rat(118283333, 1000000))>>

(***************************************************************************)
(* Text helpers.                                                           *)
(***************************************************************************)
\* str.strip()
RECURSIVE Strip(_)
Strip(s) ==
  IF s = <<>> THEN s
  ELSE IF Head(s) \in Space THEN Strip(Tail(s))
  ELSE IF s[Len(s)] \in Space THEN Strip(SubSeq(s, 1, Len(s) - 1))
  ELSE s

\* sub in s
Contains(s, sub) ==
  \E i \in 1..(Len(s) - Len(sub) + 1) : SubSeq(s, i, i + Len(sub) - 1) = sub

\* the value of a string of decimal digits
RECURSIVE ParseDigits(_)
ParseDigits(ds) ==
  IF ds = <<>> THEN 0
  ELSE 10 * ParseDigits(SubSeq(ds, 1, Len(ds) - 1)) + (IndexOf(DigitChars, ds[Len(ds)]) - 1)

\* a conversion that drops the fraction, as int(float(text)) would
FloatTruncated(text) ==
  LET dots == {i \in DOMAIN text : text[i] = "."}
      dot == IF dots = {} THEN Len(text) + 1 ELSE CHOOSE i \in dots : TRUE
  IN  Rat(ParseDigits(SubSeq(text, 1, dot - 1)), 1)

\* float(text) for digits with an optional fraction
Float(text) ==
  LET dots == {i \in DOMAIN text : text[i] = "."}
      dot == IF dots = {} THEN Len(text) + 1 ELSE CHOOSE i \in dots : TRUE
      whole == SubSeq(text, 1, dot - 1)
      frac == SubSeq(text, dot + 1, Len(text))
  IN  Rat(ParseDigits(whole) * Pow10(Len(frac)) + ParseDigits(frac), Pow10(Len(frac)))

\* a conversion that loses the longitude
ConvertLatitudeOnly(group) ==
  LET lat == RatAdd(RatAdd(Float(group[1]), RatDiv(Float(group[2]), 60)), RatDiv(Float(group[3]), 3600))
  IN  <<IF Upper(group[4][1]) = "S" THEN RatNeg(lat) ELSE lat, [type |-> "NoneType"]>>

\* a conversion that negates on S and on W in either position
ConvertAnySouthWest(group) ==
  LET lat == RatAdd(RatAdd(Float(group[1]), RatDiv(Float(group[2]), 60)), RatDiv(Float(group[3]), 3600))
      lon == RatAdd(RatAdd(Float(group[5]), RatDiv(Float(group[6]), 60)), RatDiv(Float(group[7]), 3600))
  IN  << IF Upper(group[4][1]) \in {"S", "W"} THEN RatNeg(lat) ELSE lat,
         IF Upper(group[8][1]) \in {"S", "W"} THEN RatNeg(lon) ELSE lon >>

\* lines 29-48 and 58-76: the pair computed from a match's eight groups
Convert(group) ==
  LET lat_deg == Float(group[1])
      lat_min == RatDiv(Float(group[2]), 60)
      lat_sec == RatDiv(Float(group[3]), 3600)
      lat_dir == Upper(group[4][1])
      lon_deg == Float(group[5])
      lon_min == RatDiv(Float(group[6]), 60)
      lon_sec == RatDiv(Float(group[7]), 3600)
      lon_dir == Upper(group[8][1])
      lat == RatAdd(RatAdd(lat_deg, lat_min), lat_sec)
      lon == RatAdd(RatAdd(lon_deg, lon_min), lon_sec)
      latitude == IF lat_dir = "S" THEN RatNeg(lat) ELSE lat
      longitude == IF lon_dir = "W" THEN RatNeg(lon) ELSE lon
  IN  <<latitude, longitude>>

\* can print() write the text: a lone surrogate cannot be encoded to stdout
Encodable(text) == SURROGATE \notin Range(text)

(***************************************************************************)
(* The inputs.  A coordinate text is rendered from one to three DMS groups *)
(* (degrees, minutes, seconds scaled by 10^sk, hemisphere), separators and *)
(* a style (unit marks, optional second mark, zero padding, and the number *)
(* of spaces at each kind of gap); other inputs are listed by hand.        *)
(***************************************************************************)
MaxSpaces == 2

Sp(n) == [i \in 1..n |-> " "]

\* the decimal digits of n
RECURSIVE ToDigits(_)
ToDigits(n) == IF n < 10 THEN <<DigitChars[n + 1]>> ELSE ToDigits(n \div 10) \o <<DigitChars[(n % 10) + 1]>>

\* n in at least w digits
RECURSIVE ZeroPad(_, _)
ZeroPad(ds, w) == IF Len(ds) >= w THEN ds ELSE ZeroPad(<<"0">> \o ds, w)

\* sn / 10^sk written with sk decimals
FormatSeconds(sn, sk) ==
  ToDigits(sn \div Pow10(sk)) \o
  (IF sk = 0 THEN <<>> ELSE <<".">> \o ZeroPad(ToDigits(sn % Pow10(sk)), sk))

FormatGroup(c, st) ==
  LET typo == st.marks = "typo"
      w == IF st.pad THEN 2 ELSE 1
  IN  ZeroPad(ToDigits(c.d), w) \o Sp(st.numMark) \o <<IF typo THEN MASC_ORD ELSE DEGREE>> \o Sp(st.markNum)
      \o ZeroPad(ToDigits(c.m), w) \o Sp(st.numMark) \o <<IF typo THEN PRIME ELSE APOS>> \o Sp(st.markNum)
      \o FormatSeconds(c.sn, c.sk)
      \o (IF st.secMark THEN Sp(st.numMark) \o <<IF typo THEN DPRIME ELSE QUOTE>> ELSE <<>>)
      \o Sp(st.secHemi) \o <<c.h>>

FormatSep(sep, st) == Sp(st.hemiSep) \o (IF sep = "," THEN <<",">> ELSE <<>>) \o Sp(st.sepNum)

RECURSIVE FormatGroups(_, _, _)
FormatGroups(g, seps, st) ==
  IF Len(g) = 1 THEN FormatGroup(g[1], st)
  ELSE FormatGroup(g[1], st) \o FormatSep(seps[1], st) \o FormatGroups(Tail(g), Tail(seps), st)

Render(o) == o.pre \o FormatGroups(o.g, o.seps, o.st) \o o.post

Triples ==
  { [d |-> 37, m |-> 18, sn |-> 3, sk |-> 0],
    [d |-> 77, m |-> 16, sn |-> 14, sk |-> 0],
    [d |-> 0, m |-> 4, sn |-> 5125, sk |-> 2] }

HemiChars == {"N", "S", "E", "W", "n", "s", "e", "w"}

Groups(triples, hemis) ==
  {[d |-> t.d, m |-> t.m, sn |-> t.sn, sk |-> t.sk, h |-> h] : t \in triples, h \in hemis}

\* written as 40°50'55"N 84°04'51"W
Tight == [marks |-> "ascii", secMark |-> TRUE, pad |-> TRUE, numMark |-> 0,
          markNum |-> 0, secHemi |-> 0, hemiSep |-> 0, sepNum |-> 1]
\* written as 37° 18' 3" N, 77° 16' 14" W
Spaced == [marks |-> "ascii", secMark |-> TRUE, pad |-> FALSE, numMark |-> 0,
           markNum |-> 1, secHemi |-> 1, hemiSep |-> 0, sepNum |-> 1]

Styles ==
  [marks : {"ascii", "typo"}, secMark : BOOLEAN, pad : {FALSE}, numMark : {0, 1},
   markNum : {0, MaxSpaces}, secHemi : {0, 1}, hemiSep : {0, 1}, sepNum : 0..MaxSpaces]

Affixes == { [pre |-> <<>>, post |-> <<>>],
             [pre |-> <<" ">>, post |-> <<" ", TAB>>],
             [pre |-> <<"a", "t", " ">>, post |-> <<" ", "2", "k", "m">>] }

\* every pair of values and hemisphere letters: with a comma as in the first
\* example, with a space as in the second
ValueOrigins ==
  { [family |-> "pair", g |-> <<g1, g2>>, seps |-> <<w.sep>>, st |-> w.st, pre |-> <<>>, post |-> <<>>] :
      g1 \in Groups(Triples, HemiChars), g2 \in Groups(Triples, HemiChars),
      w \in {[sep |-> ",", st |-> Spaced], [sep |-> " ", st |-> Tight]} }

\* every style and affix, for a few values
StyleOrigins ==
  { [family |-> "pair", g |-> <<g1, g2>>, seps |-> <<sep>>, st |-> st, pre |-> a.pre, post |-> a.post] :
      g1 \in Groups({[d |-> 40, m |-> 50, sn |-> 55, sk |-> 0]}, {"N", "s"}),
      g2 \in Groups({[d |-> 84, m |-> 4, sn |-> 515, sk |-> 1]}, {"W"}),
      sep \in {",", " "}, st \in Styles, a \in Affixes }

\* three groups, so that the comma pair and the space pair are different pairs
TripleOrigins ==
  { [family |-> "triple", g |-> <<g1, g2, g3>>, seps |-> seps, st |-> Tight, pre |-> <<>>, post |-> <<>>] :
      g1 \in Groups({[d |-> 1, m |-> 1, sn |-> 1, sk |-> 0]}, {"N", "S"}),
      g2 \in Groups({[d |-> 2, m |-> 2, sn |-> 2, sk |-> 0]}, {"E", "S", "w"}),
      g3 \in Groups({[d |-> 3, m |-> 3, sn |-> 3, sk |-> 0]}, {"W", "N"}),
      seps \in {<<",", " ">>, <<" ", ",">>, <<",", ",">>, <<" ", " ">>} }

Origins == ValueOrigins \cup StyleOrigins \cup TripleOrigins

Other == [family |-> "other", g |-> <<>>, seps |-> <<>>, st |-> Tight, pre |-> <<>>, post |-> <<>>]

garbage_text == <<"n", "o", "t", " ", "a", " ", "c", "o", "o", "r", "d", "i", "n", "a", "t", "e">>

OtherInputs ==
  { None, PyInt(0), PyInt(37), PyFloat(0), PyFloat(37), PyBool(FALSE), PyBool(TRUE),
    PyStr(<<>>), PyStr(<<" ">>), PyStr(<<TAB, " ">>),
    PyStr(special_text), PyStr(<<"a", "t", " ">> \o special_text \o <<" ", "!">>),
    PyStr(garbage_text), PyStr(<<"4", "0", DEGREE, " ", "N">>), PyStr(<<"4", "0", MASC_ORD, "5", PRIME>>),
    PyStr(<<SURROGATE>>), PyStr(garbage_text \o <<SURROGATE>>),
    PyStr(<<SURROGATE, " ">> \o special_text),
    PyStr(<<"1", DEGREE, "1", APOS, "1", ".", "N", ",", "2", DEGREE, "2", APOS, "2", "W">>),
    PyStr(<<"1", DEGREE, "1", APOS, ".", "5", "N", ",", "2", DEGREE, "2", APOS, "2", "W">>),
    PyStr(<<"1", DEGREE, "1", APOS, "1", QUOTE, QUOTE, "N", ",", "2", DEGREE, "2", APOS, "2", "W">>),
    PyStr(<<"1", DEGREE, "1", APOS, "1", "N", TAB, "2", MASC_ORD, "2", PRIME, "2", DPRIME, "e">>),
    PyStr(<<"1", DEGREE, "1", APOS, "1", "E", " ", "2", DEGREE, "2", APOS, "2", "N">>),
    PyStr(<<"1", DEGREE, "1", APOS, "1", "X", ",", "2", DEGREE, "2", APOS, "2", "W">>) }

(***************************************************************************)
(* parse_coordinates as a function of its argument: what the call does to  *)
(* its caller (returns a pair, or lets an exception through) and what it   *)
(* prints.                                                                 *)
(***************************************************************************)
AbsentPair == <<None, None>>

\* str(coord_str), also what an f-string writes for {coord_str}
Str(v) ==
  CASE v.type = "str" -> v.text
    [] v.type = "NoneType" -> <<"N", "o", "n", "e">>
    [] v.type = "bool" -> IF v.val THEN <<"T", "r", "u", "e">> ELSE <<"F", "a", "l", "s", "e">>
    [] v.type = "int" -> ToDigits(v.val)
    [] OTHER -> ToDigits(v.val) \o <<".", "0">>

NoMatchDiag(raw) == [msg |-> "Could not parse coordinates: ", raw |-> raw]
ErrorDiag(raw, e) == [msg |-> "Error processing coordinates: ", raw |-> raw, detail |-> e]

\* rule: the rule that decided the call ("guard", "comma", "space", "special",
\* "simplified", or "fallback" when none matched)
Returned(rule, pair, printed) == [pc |-> "returned", rule |-> rule, result |-> pair, stdout |-> printed]
Raised(rule) == [pc |-> "raised", rule |-> rule, result |-> <<>>, stdout |-> <<>>]

\* a guard without the isinstance test
RejectedWhenFalsy(v) == ~Truthy(v)

\* line 9: if not coord_str or not isinstance(coord_str, str)
Rejected(v) == ~Truthy(v) \/ ~IsStr(v)

\* lines 80-82: the handler prints the raw text again
Handler(raw, e) ==
  IF Encodable(raw) THEN Returned("fallback", AbsentPair, <<ErrorDiag(raw, e)>>) ELSE Raised("fallback")

\* lines 78-79, and the handler when print fails
Fallback(raw) ==
  IF Encodable(raw) THEN Returned("fallback", AbsentPair, <<NoMatchDiag(raw)>>)
  ELSE Handler(raw, "UnicodeEncodeError")

parse_coordinates(v) ==
  IF Rejected(v) THEN Returned("guard", AbsentPair, <<>>)
  ELSE LET cleaned == Strip(Str(v))
           m1 == Search(patterns[1], cleaned)
           m2 == Search(patterns[2], cleaned)
           m3 == Search(simplified_pattern, cleaned)
       IN  IF m1.ok THEN Returned("comma", Convert(m1.group), <<>>)
           ELSE IF m2.ok THEN Returned("space", Convert(m2.group), <<>>)
           ELSE IF Contains(cleaned, special_text) THEN Returned("special", special_result, <<>>)
           ELSE IF m3.ok THEN Returned("simplified", Convert(m3.group), <<>>)
           ELSE Fallback(Str(v))

(***************************************************************************)
(* One call, statement by statement.                                       *)
(***************************************************************************)
VARIABLES
  origin,       \* how the argument was written (the groups, separators and style)
  coord_str,    \* the argument
  pc,           \* where the call is: guard, strip, loop, special, simplified,
                \* fallback, except; then returned or raised
  cleaned_str,  \* line 14
  i,            \* the index of the pattern the loop of line 25 is at
  tried,        \* the rules consulted so far, in order, "fallback" last when none matched
  exc,          \* the exception being handled, "" when none
  result,       \* the pair returned, <<>> before the return
  stdout        \* the diagnostics printed

parserVars == <<origin, coord_str, pc, cleaned_str, i, tried, exc, result, stdout>>

\* several calls, each with a frame of locals, sharing standard output
VARIABLES
  arg,          \* arg[c]: the argument of call c
  frames,       \* frames[f]: the locals of frame f
  console       \* standard output: what the calls printed, in the order printed,
                \* each line with the call that printed it

callVars == <<arg, frames, console>>

\* process_data_file on a table whose company and coordinates columns are present
VARIABLES
  cells,        \* the coordinates column, one cell per row
  fpc,          \* where process_data_file is: parse, assign, build, count; then
                \* returned or raised
  latitudes,    \* line 139
  longitudes,   \* line 140
  df,           \* the columns df['latitude'] and df['longitude'] of lines 151-152
  mapping_data, \* line 155
  valid_coords  \* line 173

fileVars == <<cells, fpc, latitudes, longitudes, df, mapping_data, valid_coords>>

\* the generated page
VARIABLES
  producerData, \* the records written into the page
  loaded,       \* has DOMContentLoaded run
  checked,      \* checked[id]: the state of checkbox id
  searchInput,  \* the value of the search box
  markers,      \* the layers of the marker cluster group
  typeStats     \* the counts shown in plant-type-stats, total included

pageVars == <<producerData, loaded, checked, searchInput, markers, typeStats>>

vars == <<parserVars, callVars, fileVars, pageVars>>

\* the parts of the model a specification leaves out stay as they start
CallsUnused == arg = <<>> /\ frames = <<>> /\ console = <<>>
FileUnused ==
  /\ cells = <<>> /\ fpc = "unused" /\ latitudes = <<>> /\ longitudes = <<>>
  /\ df = <<>> /\ mapping_data = <<>> /\ valid_coords = 0
PageUnused ==
  /\ producerData = <<>> /\ loaded = FALSE /\ checked = <<>> /\ searchInput = <<>>
  /\ markers = <<>> /\ typeStats = <<>>
ParserUnused ==
  /\ origin = <<>> /\ coord_str = None /\ pc = "unused" /\ cleaned_str = <<>> /\ i = 1
  /\ tried = <<>> /\ exc = "" /\ result = <<>> /\ stdout = <<>>

Init ==
  /\ \/ \E o \in Origins : origin = o /\ coord_str = PyStr(Render(o))
     \/ \E v \in OtherInputs : origin = Other /\ coord_str = v
  /\ pc = "guard"
  /\ cleaned_str = <<>>
  /\ i = 1
  /\ tried = <<>>
  /\ exc = ""
  /\ result = <<>>
  /\ stdout = <<>>
  /\ CallsUnused /\ FileUnused /\ PageUnused

\* lines 9-10
Guard ==
  /\ pc = "guard"
  /\ IF Rejected(coord_str)
       THEN pc' = "returned" /\ result' = AbsentPair
       ELSE pc' = "strip" /\ result' = result
  /\ UNCHANGED <<origin, coord_str, cleaned_str, i, tried, exc, stdout>>
  /\ UNCHANGED <<callVars, fileVars, pageVars>>

\* line 14
Clean ==
  /\ pc = "strip"
  /\ cleaned_str' = Strip(Str(coord_str))
  /\ pc' = "loop"
  /\ UNCHANGED <<origin, coord_str, i, tried, exc, result, stdout>>
  /\ UNCHANGED <<callVars, fileVars, pageVars>>

\* lines 25-48: one iteration of the loop over patterns
TryPattern ==
  /\ pc = "loop"
  /\ tried' = Append(tried, IF i = 1 THEN "comma" ELSE "space")
  /\ LET match == Search(patterns[i], cleaned_str)
     IN  IF match.ok
           THEN pc' = "returned" /\ result' = Convert(match.group) /\ i' = i
           ELSE /\ result' = result
                /\ IF i < Len(patterns) THEN pc' = pc /\ i' = i + 1
                                        ELSE pc' = "special" /\ i' = i
  /\ UNCHANGED <<origin, coord_str, cleaned_str, exc, stdout>>
  /\ UNCHANGED <<callVars, fileVars, pageVars>>

\* lines 51-52
SpecialCase ==
  /\ pc = "special"
  /\ tried' = Append(tried, "special")
  /\ IF Contains(cleaned_str, special_text)
       THEN pc' = "returned" /\ result' = special_result
       ELSE pc' = "simplified" /\ result' = result
  /\ UNCHANGED <<origin, coord_str, cleaned_str, i, exc, stdout>>
  /\ UNCHANGED <<callVars, fileVars, pageVars>>

\* lines 55-76
Simplified ==
  /\ pc = "simplified"
  /\ tried' = Append(tried, "simplified")
  /\ LET match == Search(simplified_pattern, cleaned_str)
     IN  IF match.ok
           THEN pc' = "returned" /\ result' = Convert(match.group)
           ELSE pc' = "fallback" /\ result' = result
  /\ UNCHANGED <<origin, coord_str, cleaned_str, i, exc, stdout>>
  /\ UNCHANGED <<callVars, fileVars, pageVars>>

\* lines 78-79: print, which raises inside the try when the text cannot be encoded
NoMatchFound ==
  /\ pc = "fallback"
  /\ tried' = Append(tried, "fallback")
  /\ IF Encodable(Str(coord_str))
       THEN /\ stdout' = Append(stdout, NoMatchDiag(Str(coord_str)))
            /\ pc' = "returned" /\ result' = AbsentPair /\ exc' = exc
       ELSE /\ pc' = "except" /\ exc' = "UnicodeEncodeError"
            /\ UNCHANGED <<result, stdout>>
  /\ UNCHANGED <<origin, coord_str, cleaned_str, i>>
  /\ UNCHANGED <<callVars, fileVars, pageVars>>

\* lines 80-82: print, which raises past the function when the text cannot be encoded
Except ==
  /\ pc = "except"
  /\ IF Encodable(Str(coord_str))
       THEN /\ stdout' = Append(stdout, ErrorDiag(Str(coord_str), exc))
            /\ pc' = "returned" /\ result' = AbsentPair
       ELSE /\ pc' = "raised"
            /\ UNCHANGED <<result, stdout>>
  /\ UNCHANGED <<origin, coord_str, cleaned_str, i, tried, exc>>
  /\ UNCHANGED <<callVars, fileVars, pageVars>>

Next == Guard \/ Clean \/ TryPattern \/ SpecialCase \/ Simplified \/ NoMatchFound \/ Except

Spec == Init /\ [][Next]_vars

Done == pc \in {"returned", "raised"}

\* the statements compute the function
\* the rule that decided a finished call
Rule == IF tried = <<>> THEN "guard" ELSE tried[Len(tried)]

StepsAgree ==
  Done => LET r == parse_coordinates(coord_str)
          IN  r.pc = pc /\ r.rule = Rule /\ r.result = result /\ r.stdout = stdout

(***************************************************************************)
(* Properties.                                                             *)
(***************************************************************************)
IsNumber(x) == x.type = "float"
IsText == coord_str.type = "str"
Text == IF IsText THEN coord_str.text ELSE <<>>

\* the rules in the order the specification gives them
RuleOrder == <<"comma", "space", "special", "simplified">>

RuleMatches(rule, s) ==
  CASE rule = "comma" -> Search(comma_pattern, s).ok
    [] rule = "space" -> Search(space_pattern, s).ok
    [] rule = "special" -> Contains(s, special_text)
    [] OTHER -> Search(simplified_pattern, s).ok

RuleResult(rule, s) ==
  CASE rule = "comma" -> Convert(Search(comma_pattern, s).group)
    [] rule = "space" -> Convert(Search(space_pattern, s).group)
    [] rule = "special" -> special_result
    [] OTHER -> Convert(Search(simplified_pattern, s).group)

Matching(s) == {k \in DOMAIN RuleOrder : RuleMatches(RuleOrder[k], s)}
Earliest(ks) == CHOOSE k \in ks : \A j \in ks : k <= j

\* D + M/60 + S/3600 of a group as it was written, negated when its letter is neg
Decimal(c, neg) ==
  LET x == RatAdd(RatAdd(Rat(c.d, 1), Rat(c.m, 60)), Rat(c.sn, 3600 * Pow10(c.sk)))
  IN  IF c.h \in {neg, Lower(neg)} THEN RatNeg(x) ELSE x

\* a bare comma-separated pair written as D° M' S" H, D° M' S" H
WellFormedCommaPair(o) ==
  /\ o.family = "pair" /\ o.seps = <<",">>
  /\ o.st.numMark = 0 /\ o.st.hemiSep = 0
  /\ o.pre = <<>> /\ o.post = <<>>

\* C1: a returned pair has both fields numbers or both None, never one of each
C1_BothOrNeither ==
  pc = "returned" =>
    /\ Len(result) = 2
    /\ \/ IsNumber(result[1]) /\ IsNumber(result[2])
       \/ result[1] = None /\ result[2] = None

C1_Witness ==
  /\ pc = "returned" /\ Rule = "space"
  /\ IsNumber(result[1]) /\ IsNumber(result[2])

\* C2: a well-formed comma-separated pair D1 M1 S1 H1, D2 M2 S2 H2 returns
\* (sign(H1)*(D1 + M1/60 + S1/3600), sign(H2)*(D2 + M2/60 + S2/3600)), the sign
\* being -1 for S in the first group and for W in the second
C2_ConversionFormula ==
  Done /\ WellFormedCommaPair(origin) =>
    /\ pc = "returned"
    /\ result = <<Decimal(origin.g[1], "S"), Decimal(origin.g[2], "W")>>

\* 37° 18' 3" N, 77° 16' 14" W gives 37.300833..., -77.270555...
C2_Witness ==
  /\ pc = "returned" /\ WellFormedCommaPair(origin)
  /\ origin.g[1] = [d |-> 37, m |-> 18, sn |-> 3, sk |-> 0, h |-> "N"]
  /\ origin.g[2] = [d |-> 77, m |-> 16, sn |-> 14, sk |-> 0, h |-> "W"]
  /\ result = <<Rat(44761, 1200), RatNeg(Rat(139087, 1800))>>

\* C3: the literal-exception text returns exactly (33.77, -118.283333), whatever
\* the comma-separated and space-separated grammars compute for it
C3_LiteralException ==
  pc = "returned" /\ IsText /\ Text = special_text => result = special_result

\* C4: no call lets an exception through: every call returns a pair, and a fault
\* raised while processing a text yields the absent pair and the error diagnostic
C4_NeverRaises ==
  /\ pc # "raised"
  /\ pc = "returned" /\ exc # "" =>
       /\ result = AbsentPair
       /\ stdout = <<ErrorDiag(Str(coord_str), exc)>>

\* C5: whenever the grammars are tried on a text and none matches, the call prints
\* the no-match diagnostic with the raw text and returns the absent pair
C5_NoMatchDiagnosed ==
  Done /\ IsText /\ Text # <<>> /\ Matching(Strip(Text)) = {} =>
    /\ pc = "returned"
    /\ result = AbsentPair
    /\ stdout = <<NoMatchDiag(Text)>>

\* C6: the rules are consulted in the order comma pair, space pair, literal
\* exception, strict pair, each only after all earlier ones failed, and the pair
\* returned is the one the earliest matching rule computes
C6_EarliestRuleWins ==
  LET n == Len(tried) - (IF tried # <<>> /\ tried[Len(tried)] = "fallback" THEN 1 ELSE 0)
  IN  /\ n <= Len(RuleOrder)
      /\ \A k \in 1..n : tried[k] = RuleOrder[k]
      /\ \A k \in 1..(n - 1) : ~RuleMatches(RuleOrder[k], cleaned_str)
      /\ pc = "returned" /\ n > 0 =>
           LET ks == Matching(cleaned_str)
           IN  IF ks = {} THEN result = AbsentPair
               ELSE n = Earliest(ks) /\ result = RuleResult(RuleOrder[Earliest(ks)], cleaned_str)

\* a text in which the comma pair and the space pair are different pairs
C6_Witness ==
  /\ pc = "returned"
  /\ RuleMatches("comma", cleaned_str) /\ RuleMatches("space", cleaned_str)
  /\ RuleResult("comma", cleaned_str) # RuleResult("space", cleaned_str)
  /\ Search(space_pattern, cleaned_str).end < Search(comma_pattern, cleaned_str).end

\* C7: None, the empty string and non-text values return the absent pair
\* without raising, without trying any grammar and without printing
C7_RejectedInput ==
  ~IsText \/ Text = <<>> =>
    /\ pc \in {"guard", "returned"}
    /\ tried = <<>> /\ stdout = <<>>
    /\ pc = "returned" => result = AbsentPair

\* an already-numeric value
C7_Witness == pc = "returned" /\ coord_str = PyFloat(37) /\ result = AbsentPair

\* C8: in a matched pair the latitude is negative exactly when the first group's
\* letter is S and the longitude exactly when the second group's letter is W
C8_SignRule ==
  pc = "returned" /\ origin.family = "pair" /\ result # AbsentPair =>
    /\ result[1].neg = (origin.g[1].h \in {"S", "s"})
    /\ result[2].neg = (origin.g[2].h \in {"W", "w"})

\* W in the first group and S in the second leave both values positive
C8_Witness ==
  /\ pc = "returned" /\ origin.family = "pair" /\ result # AbsentPair
  /\ origin.g[1].h = "W" /\ origin.g[2].h = "S"
  /\ ~result[1].neg /\ ~result[2].neg

\* the text with its hemisphere letters in upper case, in lower case, swapped
HemisUpper(s) == [k \in DOMAIN s |-> IF Upper(s[k]) \in NSEW THEN Upper(s[k]) ELSE s[k]]
HemisLower(s) == [k \in DOMAIN s |-> IF Upper(s[k]) \in NSEW THEN Lower(s[k]) ELSE s[k]]
HemisSwapped(s) ==
  [k \in DOMAIN s |-> IF s[k] \in NSEW THEN Lower(s[k])
                      ELSE IF Upper(s[k]) \in NSEW THEN Upper(s[k]) ELSE s[k]]

SameOutcome(r) == r.pc = pc /\ r.rule = Rule /\ r.result = result

\* C9: changing the case of the hemisphere letters changes neither the rule that
\* matches nor the pair returned
C9_CaseInsensitive ==
  Done /\ IsText =>
    /\ SameOutcome(parse_coordinates(PyStr(HemisUpper(Text))))
    /\ SameOutcome(parse_coordinates(PyStr(HemisLower(Text))))
    /\ SameOutcome(parse_coordinates(PyStr(HemisSwapped(Text))))

C9_Witness ==
  /\ pc = "returned" /\ origin.family = "pair" /\ result # AbsentPair
  /\ origin.g[1].h = "s" /\ origin.g[2].h = "W"
  /\ HemisUpper(Text) # Text /\ HemisLower(Text) # Text

\* the text with the typographic unit marks in place of the ASCII ones
Typographic(s) ==
  [k \in DOMAIN s |-> CASE s[k] = DEGREE -> MASC_ORD
                        [] s[k] = APOS -> PRIME
                        [] s[k] = QUOTE -> DPRIME
                        [] OTHER -> s[k]]

\* C10: replacing the ASCII unit marks by the typographic ones leaves the
\* outcome of the call unchanged
C10_TypographicMarks ==
  Done /\ IsText => SameOutcome(parse_coordinates(PyStr(Typographic(Text))))

C10_Witness ==
  /\ pc = "returned" /\ result # AbsentPair
  /\ {DEGREE, APOS, QUOTE} \subseteq Range(Text)

\* the text of a finished call's origin written differently
Reparsed(o) == parse_coordinates(PyStr(Render(o)))

\* the origin written with no space at any gap
NoSpaces(o) ==
  [o EXCEPT !.st.numMark = 0, !.st.markNum = 0, !.st.secHemi = 0, !.st.hemiSep = 0, !.st.sepNum = 0]

CommaPair(o) == o.family = "pair" /\ o.seps = <<",">>

\* C11 as stated: in a comma-separated pair the number of spaces between any two
\* adjacent tokens (number, unit mark, hemisphere letter, comma) changes neither
\* whether the pair is recognized nor the pair returned
C11_AnyGap ==
  Done /\ CommaPair(origin) =>
    /\ pc = Reparsed(NoSpaces(origin)).pc
    /\ result = Reparsed(NoSpaces(origin)).result

\* C11 amended: the number of spaces after a unit mark, before a hemisphere letter
\* and after the comma changes neither whether the pair is recognized nor the pair
\* returned (a space between a number and its unit mark, or between the hemisphere
\* letter and the comma, is not accepted)
C11_GapsOfThePattern ==
  Done /\ CommaPair(origin) /\ origin.st.numMark = 0 /\ origin.st.hemiSep = 0 =>
    /\ pc = "returned" /\ Rule = "comma"
    /\ Reparsed(NoSpaces(origin)).rule = "comma"
    /\ result = Reparsed(NoSpaces(origin)).result

C11_Witness ==
  /\ pc = "returned" /\ Rule = "comma" /\ CommaPair(origin)
  /\ origin.st.numMark = 0 /\ origin.st.hemiSep = 0
  /\ origin.st.markNum = MaxSpaces /\ origin.st.secHemi = 1 /\ origin.st.sepNum = MaxSpaces
  /\ IsNumber(result[1])

\* the origin written without the text before and after the pair
Bare(o) == [o EXCEPT !.pre = <<>>, !.post = <<>>]

\* C14: a well-formed comma-separated pair preceded by text without digits and
\* followed by any text returns the pair the bare coordinate returns, not the
\* absent pair
C14_MatchedAnywhere ==
  Done /\ CommaPair(origin) /\ origin.st.numMark = 0 /\ origin.st.hemiSep = 0
       /\ Range(origin.pre) \cap Digit = {} =>
    /\ pc = "returned"
    /\ result # AbsentPair
    /\ result = Reparsed(Bare(origin)).result

C14_Witness ==
  /\ pc = "returned" /\ CommaPair(origin)
  /\ origin.pre = <<"a", "t", " ">> /\ origin.post = <<" ", "2", "k", "m">>
  /\ IsNumber(result[1]) /\ IsNumber(result[2])

\* C16: a text in which the strict no-space pattern finds a match is matched by
\* the space-separated pattern too, so the strict branch decides no call
C16_StrictNeverDecides ==
  Done =>
    /\ Rule # "simplified"
    /\ RuleMatches("simplified", cleaned_str) => RuleMatches("space", cleaned_str)

C16_Witness ==
  /\ pc = "returned" /\ Rule = "space"
  /\ RuleMatches("simplified", cleaned_str)

(***************************************************************************)
(* Several calls at once.  A call has its own frame: the parameter and the *)
(* locals cleaned_str, patterns, pattern, match, the converted values and  *)
(* e.  The module defines no global that the function reads or writes; the *)
(* calls share standard output, which they only append to.                 *)
(***************************************************************************)
MaxCalls == 2

Calls == 1..MaxCalls

NotCalled == [type |-> "not called"]

CallInputs ==
  { None,
    PyStr(garbage_text),
    PyStr(<<SURROGATE>>),
    PyStr(<<"1", DEGREE, "1", APOS, "1", "N", TAB, "2", MASC_ORD, "2", PRIME, "2", DPRIME, "e">>) }

\* the locals when the call begins
NewFrame(v) == [coord_str |-> v, pc |-> "guard", cleaned_str |-> <<>>, i |-> 1, exc |-> "", result |-> <<>>]

\* calls that keep their locals in one place
SharedFrame(c) == 1

\* the frame of call c
Frame(c) == c

\* the next statement of the call whose locals are f: the locals after it and
\* what it prints
Statement(f) ==
  CASE f.pc = "guard" ->
         [frame |-> IF Rejected(f.coord_str)
                      THEN [f EXCEPT !.pc = "returned", !.result = AbsentPair]
                      ELSE [f EXCEPT !.pc = "strip"],
          out |-> <<>>]
    [] f.pc = "strip" ->
         [frame |-> [f EXCEPT !.pc = "loop", !.cleaned_str = Strip(Str(f.coord_str))], out |-> <<>>]
    [] f.pc = "loop" ->
         LET match == Search(patterns[f.i], f.cleaned_str)
         IN  [frame |-> IF match.ok THEN [f EXCEPT !.pc = "returned", !.result = Convert(match.group)]
                        ELSE IF f.i < Len(patterns) THEN [f EXCEPT !.i = f.i + 1]
                        ELSE [f EXCEPT !.pc = "special"],
              out |-> <<>>]
    [] f.pc = "special" ->
         [frame |-> IF Contains(f.cleaned_str, special_text)
                      THEN [f EXCEPT !.pc = "returned", !.result = special_result]
                      ELSE [f EXCEPT !.pc = "simplified"],
          out |-> <<>>]
    [] f.pc = "simplified" ->
         LET match == Search(simplified_pattern, f.cleaned_str)
         IN  [frame |-> IF match.ok THEN [f EXCEPT !.pc = "returned", !.result = Convert(match.group)]
                        ELSE [f EXCEPT !.pc = "fallback"],
              out |-> <<>>]
    [] f.pc = "fallback" ->
         IF Encodable(Str(f.coord_str))
           THEN [frame |-> [f EXCEPT !.pc = "returned", !.result = AbsentPair],
                 out |-> <<NoMatchDiag(Str(f.coord_str))>>]
           ELSE [frame |-> [f EXCEPT !.pc = "except", !.exc = "UnicodeEncodeError"], out |-> <<>>]
    [] f.pc = "except" ->
         IF Encodable(Str(f.coord_str))
           THEN [frame |-> [f EXCEPT !.pc = "returned", !.result = AbsentPair],
                 out |-> <<ErrorDiag(Str(f.coord_str), f.exc)>>]
           ELSE [frame |-> [f EXCEPT !.pc = "raised"], out |-> <<>>]

InitCalls ==
  /\ arg = [c \in Calls |-> NotCalled]
  /\ frames = [c \in Calls |-> NewFrame(NotCalled)]
  /\ console = <<>>
  /\ ParserUnused /\ FileUnused /\ PageUnused

\* a caller calls parse_coordinates(v)
Call(c, v) ==
  /\ arg[c] = NotCalled
  /\ arg' = [arg EXCEPT ![c] = v]
  /\ frames' = [frames EXCEPT ![Frame(c)] = NewFrame(v)]
  /\ UNCHANGED console
  /\ UNCHANGED <<parserVars, fileVars, pageVars>>

\* call c runs its next statement
Run(c) ==
  /\ arg[c] # NotCalled
  /\ frames[Frame(c)].pc \notin {"returned", "raised"}
  /\ LET s == Statement(frames[Frame(c)])
     IN  /\ frames' = [frames EXCEPT ![Frame(c)] = s.frame]
         /\ console' = console \o [k \in DOMAIN s.out |-> [by |-> c, line |-> s.out[k]]]
  /\ UNCHANGED arg
  /\ UNCHANGED <<parserVars, fileVars, pageVars>>

NextCalls ==
  \/ \E c \in Calls, v \in CallInputs : Call(c, v)
  \/ \E c \in Calls : Run(c)

SpecCalls == InitCalls /\ [][NextCalls]_vars

CallDone(c) == arg[c] # NotCalled /\ frames[Frame(c)].pc \in {"returned", "raised"}

RECURSIVE PrintedBy(_, _)
PrintedBy(c, out) ==
  IF out = <<>> THEN <<>>
  ELSE (IF out[1].by = c THEN <<out[1].line>> ELSE <<>>) \o PrintedBy(c, Tail(out))

\* how call c ended, what it returned and what it printed
Outcome(c) == [pc |-> frames[Frame(c)].pc, result |-> frames[Frame(c)].result, stdout |-> PrintedBy(c, console)]

OutcomeOf(v) == [pc |-> parse_coordinates(v).pc, result |-> parse_coordinates(v).result,
                 stdout |-> parse_coordinates(v).stdout]

\* C12: however the statements of the calls interleave, a finished call ended,
\* returned and printed what a call alone on its argument ends with, returns and
\* prints; two finished calls on equal arguments have equal outcomes; and a call
\* in flight has the locals its own statements left it.
C12_CallsIndependent ==
  /\ \A c \in Calls : CallDone(c) => Outcome(c) = OutcomeOf(arg[c])
  /\ \A c, d \in Calls : CallDone(c) /\ CallDone(d) /\ arg[c] = arg[d] => Outcome(c) = Outcome(d)
  /\ \A c \in Calls : arg[c] # NotCalled => frames[Frame(c)].coord_str = arg[c]

\* call 1 has printed its diagnostic and returned while call 2, on a different
\* argument, is between its second pattern and its return
C12_Witness ==
  /\ CallDone(1) /\ arg[1] = PyStr(garbage_text) /\ Outcome(1).stdout = <<NoMatchDiag(garbage_text)>>
  /\ arg[2] \notin {NotCalled, arg[1]}
  /\ frames[Frame(2)].pc = "loop" /\ frames[Frame(2)].i = 2

(***************************************************************************)
(* process_data_file from line 137 on: the file was read and its company   *)
(* and coordinates columns were found.                                     *)
(***************************************************************************)
MaxRows == 3

\* the float that is not a number: an empty cell as pandas reads it, and None in
\* a column of floats
NaN == [type |-> "float", neg |-> FALSE, num |-> 0, den |-> 0]

\* pd.notna
NotNa(v) == v # NaN /\ v # None

not_available == <<"N", "o", "t", " ", "a", "v", "a", "i", "l", "a", "b", "l", "e">>

CompanyNames == <<PyStr(<<"A">>), PyStr(<<"B">>), PyStr(<<"C">>), PyStr(<<"D">>)>>

CellValues ==
  { NaN,
    PyFloat(37),
    PyStr(garbage_text),
    PyStr(<<SURROGATE>>),
    PyStr(<<"3", "7", DEGREE, " ", "1", "8", APOS, " ", "3", QUOTE, " ", "N", ",", " ",
            "7", "7", DEGREE, " ", "1", "6", APOS, " ", "1", "4", QUOTE, " ", "W">>) }

\* the column pandas makes of a list: a list with a float in it becomes a column
\* of floats, where None is NaN; a list of None only stays as it is
ToColumn(list) ==
  IF \E k \in DOMAIN list : list[k].type = "float"
    THEN [k \in DOMAIN list |-> IF list[k] = None THEN NaN ELSE list[k]]
    ELSE list

InitFile ==
  /\ \E n \in 0..MaxRows : \E cs \in [1..n -> CellValues] :
       cells = [k \in 1..n |-> [company |-> CompanyNames[k], coordinates |-> cs[k]]]
  /\ fpc = "parse"
  /\ latitudes = <<>>
  /\ longitudes = <<>>
  /\ df = <<>>
  /\ mapping_data = <<>>
  /\ valid_coords = 0
  /\ ParserUnused /\ CallsUnused /\ PageUnused

\* lines 142-149: one iteration of the first loop; an exception of
\* parse_coordinates leaves process_data_file
ParseRow ==
  /\ fpc = "parse"
  /\ Len(latitudes) < Len(cells)
  /\ LET cell == cells[Len(latitudes) + 1].coordinates
         call == parse_coordinates(cell)
     IN  IF NotNa(cell)
           THEN IF call.pc = "raised"
                  THEN fpc' = "raised" /\ UNCHANGED <<latitudes, longitudes>>
                  ELSE /\ latitudes' = Append(latitudes, call.result[1])
                       /\ longitudes' = Append(longitudes, call.result[2])
                       /\ fpc' = fpc
           ELSE /\ latitudes' = Append(latitudes, None)
                /\ longitudes' = Append(longitudes, None)
                /\ fpc' = fpc
  /\ UNCHANGED <<cells, df, mapping_data, valid_coords>>
  /\ UNCHANGED <<parserVars, callVars, pageVars>>

\* lines 151-152
AssignColumns ==
  /\ fpc = "parse"
  /\ Len(latitudes) = Len(cells)
  /\ df' = [latitude |-> ToColumn(latitudes), longitude |-> ToColumn(longitudes)]
  /\ fpc' = "build"
  /\ UNCHANGED <<cells, latitudes, longitudes, mapping_data, valid_coords>>
  /\ UNCHANGED <<parserVars, callVars, pageVars>>

\* lines 157-171: one iteration of the second loop
BuildRecord ==
  /\ fpc = "build"
  /\ Len(mapping_data) < Len(cells)
  /\ LET k == Len(mapping_data) + 1
         producer == [company |-> Str(cells[k].company),
                      coordinates |-> IF NotNa(cells[k].coordinates) THEN Str(cells[k].coordinates)
                                      ELSE not_available,
                      latitude |-> df.latitude[k],
                      longitude |-> df.longitude[k]]
     IN  mapping_data' = Append(mapping_data, producer)
  /\ UNCHANGED <<cells, fpc, latitudes, longitudes, df, valid_coords>>
  /\ UNCHANGED <<parserVars, callVars, pageVars>>

\* lines 173-176
CountValid ==
  /\ fpc = "build"
  /\ Len(mapping_data) = Len(cells)
  /\ valid_coords' = Cardinality({k \in DOMAIN mapping_data :
                                    mapping_data[k].latitude # None /\ mapping_data[k].longitude # None})
  /\ fpc' = "returned"
  /\ UNCHANGED <<cells, latitudes, longitudes, df, mapping_data>>
  /\ UNCHANGED <<parserVars, callVars, pageVars>>

NextFile == ParseRow \/ AssignColumns \/ BuildRecord \/ CountValid

SpecFile == InitFile /\ [][NextFile]_vars

\* the coordinates of the row parsed
RowParsed(r) ==
  /\ NotNa(r.coordinates)
  /\ parse_coordinates(r.coordinates).pc = "returned"
  /\ parse_coordinates(r.coordinates).result # AbsentPair

\* a latitude or longitude that is not there
IsAbsent(x) == x \in {None, NaN}

\* C13: when process_data_file returns, the records are the rows in order, a
\* record has the pair its row's cell parses to, or no latitude and longitude
\* when the cell is missing or does not parse, and the count reported is the
\* number of rows whose coordinates parsed.
C13_RecordPerRowAndCount ==
  fpc = "returned" =>
    /\ Len(mapping_data) = Len(cells)
    /\ \A k \in DOMAIN cells :
         /\ mapping_data[k].company = Str(cells[k].company)
         /\ IF RowParsed(cells[k])
              THEN <<mapping_data[k].latitude, mapping_data[k].longitude>>
                     = parse_coordinates(cells[k].coordinates).result
              ELSE IsAbsent(mapping_data[k].latitude) /\ IsAbsent(mapping_data[k].longitude)
    /\ valid_coords = Cardinality({k \in DOMAIN cells : RowParsed(cells[k])})

(***************************************************************************)
(* The generated page: the script of the template, from the load of the    *)
(* page on.  A render is addAllMarkers, which the load and every change of *)
(* a checkbox or of the search box run.                                    *)
(***************************************************************************)
MaxProducers == 2

\* records as process_data_file makes them and json.dumps writes them
ProducerPool ==
  { [company |-> <<"A", "c", "m", "e">>, city |-> <<"H", "o", "p", "e", "w", "e", "l", "l">>, state |-> <<"V", "A">>,
     country |-> <<"U", "S", "A">>, plantType |-> <<"S", "u", "l", "f", "u", "r", " ", "B", "u", "r", "n", "e", "r">>,
     latitude |-> Rat(3730, 100), longitude |-> RatNeg(Rat(7727, 100))],
    [company |-> <<"B", "o", "r", "a", "x">>, city |-> <<"Q", "u", "i", "t", "o">>, state |-> <<"P", "I">>,
     country |-> <<"E", "c", "u", "a", "d", "o", "r">>, plantType |-> <<"M", "e", "t", "a", "l", "l", "u", "r", "g", "i", "c", "a", "l">>,
     latitude |-> Rat(0, 1), longitude |-> RatNeg(Rat(785, 10))],
    [company |-> <<"C", "o", "b", "r", "e">>, city |-> <<"C", "a", "n", "a", "n", "e", "a">>, state |-> <<"S", "O">>,
     country |-> <<"M", "e", "x", "i", "c", "o">>, plantType |-> <<"M", "e", "t", "a", "l", "l", "u", "r", "g", "i", "c", "a", "l">>,
     latitude |-> None, longitude |-> None],
    [company |-> <<"D", "e", "l", "t", "a">>, city |-> <<"S", "a", "r", "n", "i", "a">>, state |-> <<"O", "N">>,
     country |-> <<"C", "a", "n", "a", "d", "a">>, plantType |-> <<"A", "c", "i", "d", " ", "R", "e", "g", "e", "n", "e", "r", "a", "t", "i", "o", "n">>,
     latitude |-> Rat(4297, 100), longitude |-> RatNeg(Rat(8240, 100))],
    [company |-> <<"E", "c", "o">>, city |-> <<"H", "o", "u", "s", "t", "o", "n">>, state |-> <<"T", "X">>,
     country |-> <<"U", "n", "i", "t", "e", "d", " ", "S", "t", "a", "t", "e", "s">>, plantType |-> <<"N", "o", "t", " ", "s", "p", "e", "c", "i", "f", "i", "e", "d">>,
     latitude |-> NaN, longitude |-> NaN],
    [company |-> <<"F", "l", "u", "x">>, city |-> <<"B", "e", "a", "u", "m", "o", "n", "t">>, state |-> <<"T", "X">>,
     country |-> <<"U", "S", "A">>, plantType |-> <<"S", "p", "e", "n", "t", " ", "a", "c", "i", "d", " ", "r", "e", "g", "e", "n", "e", "r", "a", "t", "o", "r">>,
     latitude |-> Rat(3008, 100), longitude |-> RatNeg(Rat(9410, 100))] }

TypeBoxes == {"filter-sulfur", "filter-metallurgical", "filter-regeneration", "filter-other"}
CountryBoxes == {"country-usa", "country-canada", "country-mexico"}
Checkboxes == TypeBoxes \cup CountryBoxes

SearchTexts == {<<>>, <<"a", "c">>, <<"T", "X">>}

\* String.prototype.toLowerCase and includes
toLowerCase(s) == [k \in DOMAIN s |-> Lower(s[k])]
includes(s, sub) == Contains(s, sub)

\* !x of a latitude or longitude: null, NaN, 0 and -0 are falsy
Falsy(x) == x = None \/ x.num = 0

isNaN(x) == x # None /\ x.den = 0

\* lines 427 and 490: the test the filter and createMarker make
InvalidCoordinates(p) ==
  Falsy(p.latitude) \/ Falsy(p.longitude) \/ isNaN(p.latitude) \/ isNaN(p.longitude)

\* lines 497-508 (and 432-438 of createMarker)
typeCategory(p) ==
  LET plantType == toLowerCase(p.plantType)
  IN  IF includes(plantType, <<"s", "u", "l", "f", "u", "r">>) THEN "sulfur"
      ELSE IF includes(plantType, <<"m", "e", "t", "a", "l", "l", "u", "r", "g", "i", "c", "a", "l">>) THEN "metallurgical"
      ELSE IF includes(plantType, <<"r", "e", "g", "e", "n", "e", "r", "a", "t", "i", "o", "n">>) \/ includes(plantType, <<"r", "e", "g", "e", "n", "e", "r", "a", "t">>) THEN "regeneration"
      ELSE "other"

typeMatch(p, boxes) == boxes["filter-" \o typeCategory(p)]

\* lines 515-526
countryCategory(p) ==
  LET country == toLowerCase(p.country)
  IN  IF includes(country, <<"u", "s", "a">>) \/ includes(country, <<"u", "n", "i", "t", "e", "d", " ", "s", "t", "a", "t", "e", "s">>) THEN "usa"
      ELSE IF includes(country, <<"c", "a", "n", "a", "d", "a">>) THEN "canada"
      ELSE IF includes(country, <<"m", "e", "x", "i", "c", "o">>) THEN "mexico"
      ELSE "other"

countryMatch(p, boxes) ==
  IF countryCategory(p) = "other" THEN TRUE ELSE boxes["country-" \o countryCategory(p)]

\* lines 529-534
searchMatch(p, value) ==
  LET searchText == toLowerCase(value)
  IN  \/ searchText = <<>>
      \/ includes(toLowerCase(p.company), searchText)
      \/ includes(toLowerCase(p.city), searchText)
      \/ includes(toLowerCase(p.state), searchText)
      \/ includes(toLowerCase(p.country), searchText)

\* lines 487-547: the indexes of filteredData in producerData
RECURSIVE filteredData(_, _, _, _)
filteredData(data, k, boxes, value) ==
  IF k > Len(data) THEN <<>>
  ELSE (IF /\ ~InvalidCoordinates(data[k])
           /\ typeMatch(data[k], boxes) /\ countryMatch(data[k], boxes) /\ searchMatch(data[k], value)
          THEN <<k>> ELSE <<>>)
       \o filteredData(data, k + 1, boxes, value)

\* lines 425-461: the marker of record k, or none
createMarker(data, k) ==
  IF InvalidCoordinates(data[k]) THEN <<>>
  ELSE <<[producer |-> k, lat |-> data[k].latitude, lng |-> data[k].longitude,
          alt |-> data[k].company, plantType |-> typeCategory(data[k])]>>

\* lines 553-556
RECURSIVE addLayers(_, _)
addLayers(data, ks) ==
  IF ks = <<>> THEN <<>> ELSE createMarker(data, ks[1]) \o addLayers(data, Tail(ks))

\* line 468: markers.clearLayers()
clearLayers(layers) == <<>>

\* lines 537-540 and updateStats: the counts by type of the records that pass,
\* and the total shown
stats(data, ks) ==
  LET count(c) == Cardinality({j \in DOMAIN ks : typeCategory(data[ks[j]]) = c})
  IN  [sulfur |-> count("sulfur"), metallurgical |-> count("metallurgical"),
       regeneration |-> count("regeneration"), other |-> count("other"),
       total |-> count("sulfur") + count("metallurgical") + count("regeneration") + count("other")]

\* lines 465-567 with the checkboxes as boxes and the search box holding value
addAllMarkers(boxes, value) ==
  LET ks == filteredData(producerData, 1, boxes, value)
  IN  /\ markers' = clearLayers(markers) \o addLayers(producerData, ks)
      /\ typeStats' = stats(producerData, ks)

InitPage ==
  /\ \E n \in 0..MaxProducers : producerData \in [1..n -> ProducerPool]
  /\ loaded = FALSE
  /\ checked = [b \in Checkboxes |-> TRUE]
  /\ searchInput = <<>>
  /\ markers = <<>>
  /\ typeStats = <<>>
  /\ ParserUnused /\ CallsUnused /\ FileUnused

\* DOMContentLoaded: line 638
Load ==
  /\ ~loaded
  /\ loaded' = TRUE
  /\ addAllMarkers(checked, searchInput)
  /\ UNCHANGED <<producerData, checked, searchInput>>
  /\ UNCHANGED <<parserVars, callVars, fileVars>>

\* lines 631-633: the change event of a checkbox
Change(b) ==
  /\ loaded
  /\ checked' = [checked EXCEPT ![b] = ~checked[b]]
  /\ addAllMarkers(checked', searchInput)
  /\ UNCHANGED <<producerData, loaded, searchInput>>
  /\ UNCHANGED <<parserVars, callVars, fileVars>>

\* line 635: the input event of the search box
Input(value) ==
  /\ loaded
  /\ value # searchInput
  /\ searchInput' = value
  /\ addAllMarkers(checked, value)
  /\ UNCHANGED <<producerData, loaded, checked>>
  /\ UNCHANGED <<parserVars, callVars, fileVars>>

NextPage ==
  \/ Load
  \/ \E b \in Checkboxes : Change(b)
  \/ \E value \in SearchTexts : Input(value)

SpecPage == InitPage /\ [][NextPage]_vars

\* the record has a latitude and a longitude
HasCoordinates(p) == p.latitude \notin {None, NaN} /\ p.longitude \notin {None, NaN}

\* the records that have both coordinates and pass the three filters now
Shown ==
  {k \in DOMAIN producerData :
     /\ HasCoordinates(producerData[k])
     /\ typeMatch(producerData[k], checked)
     /\ countryMatch(producerData[k], checked)
     /\ searchMatch(producerData[k], searchInput)}

\* C15: once the page has loaded, the markers are one for each record that has
\* both coordinates and passes the type, country and search filters as they
\* stand, no other marker is on the map, and the total of the type statistics
\* is the number of markers.
C15_MarkersAreTheShownRecords ==
  loaded =>
    /\ {markers[j].producer : j \in DOMAIN markers} = Shown
    /\ Len(markers) = Cardinality(Shown)
    /\ typeStats.total = Len(markers)

=============================================================================
